---- MODULE Spec2Model ----
(***************************************************************************)
(* Zoom -> GoHighLevel (GHL) registration bridge (index.js).               *)
(*                                                                         *)
(* Two Express handlers run concurrently on one Node.js event loop:        *)
(*   POST /zoom-webhook  : de-duplicates a Zoom notification in the        *)
(*                         ZoomEvent collection (the Event Ledger), then   *)
(*                         resolves the registrant to a GHL contact id     *)
(*                         (Contact collection, GHL search, GHL create),   *)
(*                         tags the contact and enrolls it in a workflow;  *)
(*   POST /ghl-webhook   : stores the global tag (Settings collection) and *)
(*                         upserts the Contact row GHL tells us about.     *)
(* JavaScript runs a handler without interruption between two awaits, so   *)
(* every action below is one such run: it starts where an awaited store    *)
(* operation or remote call completes and ends at the next await (or at    *)
(* the response).                                                          *)
(*                                                                         *)
(* Strings the code concatenates, trims or lower-cases are sequences of    *)
(* one-character strings (a multi-character element stands for a literal   *)
(* the code never looks into); ids and tag values, which the code only     *)
(* compares, are TLA+ strings.                                             *)
(***************************************************************************)
EXTENDS Naturals, Sequences, FiniteSets, TLC

\* ------------------------------------------------------------------------
\* Bounds of the model
\* ------------------------------------------------------------------------

\* Number of deliveries to POST /zoom-webhook (each handled by its own task).
MaxZoom == 2

\* Number of deliveries to POST /ghl-webhook.
MaxCfg == 1

Zooms == 1..MaxZoom

Cfgs == 1..MaxCfg

\* ------------------------------------------------------------------------
\* JavaScript values
\* ------------------------------------------------------------------------

\* `undefined` for an id, a tag value or a status.
Undefined == "undefined"

\* `undefined` for a string modelled as a sequence of characters.
UndefinedStr == <<"undefined">>

\* `null`: the result of a findOne that matches no document.
Null == [null |-> TRUE]

\* JavaScript truthiness of a string: neither undefined nor ''.
Truthy(s) == s # UndefinedStr /\ s # <<>>

\* JavaScript truthiness of an id or tag value.
TruthyId(v) == v # Undefined /\ v # ""

\* ------------------------------------------------------------------------
\* String.prototype.toLowerCase and String.prototype.trim
\* ------------------------------------------------------------------------

LowerChar(ch) ==
    CASE ch = "A" -> "a"
      [] ch = "B" -> "b"
      [] OTHER -> ch

ToLowerCase(s) == [i \in 1..Len(s) |-> LowerChar(s[i])]

IsSpace(ch) == ch = " "

RECURSIVE TrimStart(_)
TrimStart(s) ==
    IF s = <<>> THEN <<>>
    ELSE IF IsSpace(Head(s)) THEN TrimStart(Tail(s))
    ELSE s

RECURSIVE TrimEnd(_)
TrimEnd(s) ==
    IF s = <<>> THEN <<>>
    ELSE IF IsSpace(s[Len(s)]) THEN TrimEnd(SubSeq(s, 1, Len(s) - 1))
    ELSE s

Trim(s) == TrimEnd(TrimStart(s))

\* ------------------------------------------------------------------------
\* Inbound requests
\* ------------------------------------------------------------------------

WebinarRegistration == <<"webinar.registration_created">>

MeetingRegistration == <<"meeting.registration_created">>

UrlValidation == <<"endpoint.url_validation">>

MeetingStarted == <<"meeting.started">>

\* A delivery to POST /zoom-webhook, together with the process environment
\* the handler reads while it runs (process.env is read on every request):
\*   event         req.body.event
\*   id            payload.object.id        (the meeting / webinar id)
\*   hasRegistrant whether payload.object.registrant is an object
\*   regEmail      payload.object.registrant.email
\*   objEmail      payload.object.email
\*   uuid          payload.object.uuid      (the meeting uuid)
\*   ts            header x-zm-request-timestamp
\*   signature     header x-zm-signature
\*   plainToken    payload.plainToken
\*   verify        process.env.VERIFY_ZOOM_SIGNATURE === 'true'
\*   secret        process.env.ZOOM_SECRET_TOKEN
ZoomReq(event, id, regEmail, uuid, ts) ==
    [event |-> event, id |-> id, hasRegistrant |-> TRUE, regEmail |-> regEmail,
     objEmail |-> UndefinedStr, uuid |-> uuid, ts |-> ts,
     signature |-> UndefinedStr, plainToken |-> UndefinedStr,
     verify |-> FALSE, secret |-> <<"s">>]

\* crypto.createHmac('sha256', key).update(msg).digest('hex'), kept symbolic:
\* distinct (key, msg) pairs give distinct digests.
Hmac(key, msg) == <<"hmac(">> \o key \o <<",">> \o msg \o <<")">>

\* JSON.stringify(req.body), kept symbolic: the fields of the body in order,
\* the registrant object (when there is one) in braces of its own.
StringifyBody(req) ==
    <<"{">> \o req.event \o <<",">> \o req.id \o <<",">>
        \o (IF req.hasRegistrant THEN <<"{">> \o req.regEmail \o <<"}">>
            ELSE UndefinedStr)
        \o <<",">> \o req.objEmail \o <<",">> \o req.uuid
        \o <<",">> \o req.plainToken \o <<"}">>

\* The signature Zoom computes for a request with the shared secret.
ZoomSignature(req, secret) ==
    <<"v0=">> \o Hmac(secret, <<"v0:">> \o req.ts \o <<":">> \o StringifyBody(req))

Signed(req) == [req EXCEPT !.verify = TRUE, !.signature = ZoomSignature(req, req.secret)]

\* The deliveries the model draws from.
ZoomRequests ==
    { \* three registrants of webinar 5; "A " and "a" are the same person
      ZoomReq(WebinarRegistration, <<"5">>, <<"a">>, <<"u">>, <<"t">>),
      ZoomReq(WebinarRegistration, <<"5">>, <<"A", " ">>, <<"u">>, <<"t">>),
      ZoomReq(WebinarRegistration, <<"5">>, <<"b">>, <<"u">>, <<"t">>),
      \* an event that is not a registration, identified by the meeting uuid
      ZoomReq(MeetingStarted, <<"5">>, UndefinedStr, <<"u">>, <<"t">>),
      \* a registration with no email, no meeting id and no uuid, identified by
      \* the timestamp header
      ZoomReq(WebinarRegistration, UndefinedStr, UndefinedStr, UndefinedStr, <<"t">>),
      \* a registration with nothing to identify it
      ZoomReq(MeetingRegistration, UndefinedStr, <<"b">>, UndefinedStr, UndefinedStr),
      \* signature verification switched on: a good and a bad signature
      Signed(ZoomReq(MeetingStarted, <<"5">>, UndefinedStr, <<"u">>, <<"t">>)),
      [ZoomReq(WebinarRegistration, <<"5">>, <<"b">>, <<"u">>, <<"t">>)
          EXCEPT !.verify = TRUE, !.signature = <<"v0=">>],
      \* signature verification switched on, and the signature header, the
      \* timestamp header or the secret missing (the last two with the
      \* signature Zoom would compute from what is there)
      [ZoomReq(WebinarRegistration, <<"5">>, <<"b">>, <<"u">>, <<"t">>)
          EXCEPT !.verify = TRUE],
      Signed(ZoomReq(MeetingStarted, <<"5">>, UndefinedStr, <<"u">>, UndefinedStr)),
      Signed([ZoomReq(MeetingStarted, <<"5">>, UndefinedStr, <<"u">>, <<"t">>)
                 EXCEPT !.secret = UndefinedStr]),
      \* a body with no event type, identified by the timestamp header
      ZoomReq(UndefinedStr, UndefinedStr, UndefinedStr, UndefinedStr, <<"t">>),
      \* the URL validation challenge: with and without a token, without the
      \* secret, and unsigned while signature verification is switched on
      [ZoomReq(UrlValidation, UndefinedStr, UndefinedStr, UndefinedStr, <<"t">>)
          EXCEPT !.plainToken = <<"p">>],
      ZoomReq(UrlValidation, UndefinedStr, UndefinedStr, UndefinedStr, <<"t">>),
      [ZoomReq(UrlValidation, UndefinedStr, UndefinedStr, UndefinedStr, <<"t">>)
          EXCEPT !.plainToken = <<"p">>, !.secret = UndefinedStr],
      [ZoomReq(UrlValidation, UndefinedStr, UndefinedStr, UndefinedStr, <<"t">>)
          EXCEPT !.plainToken = <<"p">>, !.verify = TRUE] }

\* A delivery to POST /ghl-webhook: the body is flat or nested under
\* customData; contactId, email and zoom_tag are the fields the handler uses.
CfgBody(contactId, email, zoomTag) ==
    [customData |-> Null, contactId |-> contactId, email |-> email, zoom_tag |-> zoomTag]

Nested(body) ==
    [customData |-> body, contactId |-> Undefined, email |-> UndefinedStr,
     zoom_tag |-> Undefined]

CfgRequests ==
    { CfgBody(Undefined, <<"a">>, Undefined),
      CfgBody(Undefined, <<"A", " ">>, "Promo"),
      CfgBody("c1", <<"a">>, "Promo"),
      CfgBody("c1", <<>>, "VIP"),
      CfgBody(Undefined, <<" ">>, "VIP"),
      Nested(CfgBody("c2", <<"b">>, Undefined)) }

\* ------------------------------------------------------------------------
\* State
\* ------------------------------------------------------------------------

VARIABLES
    z,          \* z[d]: the task handling zoom delivery d (its locals and pc)
    c,          \* c[k]: the task handling configuration delivery k
    ledger,     \* the ZoomEvent collection
    contacts,   \* the Contact collection
    settings,   \* value of the Settings document with key 'globalZoomTag'
    remote,     \* the contacts held by the GHL location
    h,          \* history of each zoom delivery (what it did), for the properties
    version     \* history: how many times the global tag has been written

vars == <<z, c, ledger, contacts, settings, remote, h, version>>

\* The GHL location starts empty, or holding the contact c1 with email a, or
\* holding the contact c3 of somebody else, whose email xa contains a.
RemoteInits ==
    { {},
      {[id |-> "c1", email |-> <<"a">>]},
      {[id |-> "c3", email |-> <<"x", "a">>]} }

ZoomIdle ==
    [pc |-> "idle", req |-> Null, eventId |-> UndefinedStr, email |-> UndefinedStr,
     contact |-> Null, ghlContactId |-> Undefined, tags |-> <<>>,
     workflowId |-> Undefined,
     encryptedToken |-> UndefinedStr, status |-> 0, message |-> ""]

\* (`failed` is history: whether a store operation of the delivery failed
\* because the store could not be reached.)
CfgIdle ==
    [pc |-> "idle", body |-> Null, contactId |-> Undefined, email |-> UndefinedStr,
     zoom_tag |-> Undefined, status |-> 0, message |-> "", failed |-> FALSE]

\* What a zoom delivery has done so far:
\*   steps         the store operations and remote calls it has completed, in
\*                 order
\*   last          the outcome of the latest of them
\*   found         what Contact.findOne answered: "null", "unlinked", "linked"
\*   via           how the remote id was obtained: "local", "found", "created",
\*                 "conflict"
\*   identity      the event identity derived for it (undefined when the
\*                 handler answered before deriving one)
\*   email         the normalized registrant email it reconciles
\*   resolved      the remote id its resolution obtained
\*   dupAtStart    whether the Ledger held its event identity on arrival
\*   verAtStart    the number of writes of the global tag before its arrival
\*   settingAtRead the stored global tag when its Settings.findOne answered
\*   tagsTo, tagsSent  the contact id and the tag list of its add-tags call
HistoryNone ==
    [steps |-> <<>>, last |-> "", found |-> "", via |-> "",
     identity |-> UndefinedStr, email |-> UndefinedStr, resolved |-> Undefined,
     dupAtStart |-> FALSE,
     verAtStart |-> 0, settingAtRead |-> Undefined,
     tagsTo |-> Undefined, tagsSent |-> <<>>]

Init ==
    /\ z = [d \in Zooms |-> ZoomIdle]
    /\ c = [k \in Cfgs |-> CfgIdle]
    /\ ledger = {}
    /\ contacts = {}
    /\ settings = Undefined
    /\ remote \in RemoteInits
    /\ h = [d \in Zooms |-> HistoryNone]
    /\ version = 0

\* The history of delivery d extended by one completed step.
Logged(d, op, out) == [h EXCEPT ![d].steps = Append(@, op), ![d].last = out]

\* ------------------------------------------------------------------------
\* POST /zoom-webhook: the synchronous parts
\* ------------------------------------------------------------------------

\* res.status(status).json({message}) followed by return: the task is over
\* and its locals are gone.
Reply(r, status, message) ==
    [r EXCEPT !.pc = "done", !.status = status, !.message = message,
              !.eventId = UndefinedStr, !.email = UndefinedStr, !.contact = Null,
              !.ghlContactId = Undefined, !.tags = <<>>, !.workflowId = Undefined]

\* Mutant of VerifyZoomSignature: the missing-input test is left out.
VerifySignatureOnly(req) == req.signature = ZoomSignature(req, req.secret)

VerifyZoomSignature(req) ==
    IF ~Truthy(req.signature) \/ ~Truthy(req.ts) \/ ~Truthy(req.secret) THEN FALSE
    ELSE req.signature = ZoomSignature(req, req.secret)

\* payload?.object?.registrant?.email || payload?.object?.email
RegistrantEmail(req) == IF Truthy(req.regEmail) THEN req.regEmail ELSE req.objEmail

\* Mutant of DeriveEventId: the key is the meeting uuid, as it was before the
\* composite key was introduced.
DeriveEventIdFromUuid(req) == IF Truthy(req.uuid) THEN req.uuid ELSE req.ts

\* Mutant of DeriveEventId: the timestamp header is preferred to the uuid.
DeriveEventIdTimestampFirst(req) ==
    IF Truthy(req.id) /\ Truthy(RegistrantEmail(req))
    THEN req.id \o <<"_">> \o RegistrantEmail(req) \o <<"_">> \o req.event
    ELSE IF Truthy(req.ts) THEN req.ts
    ELSE req.uuid

\* The Ledger key of a delivery.
DeriveEventId(req) ==
    IF Truthy(req.id) /\ Truthy(RegistrantEmail(req))
    THEN req.id \o <<"_">> \o RegistrantEmail(req) \o <<"_">> \o req.event
    ELSE IF Truthy(req.uuid) THEN req.uuid
    ELSE req.ts

IsRegistration(event) == event = WebinarRegistration \/ event = MeetingRegistration

\* registrant = objectData.registrant || objectData; registrant.email
HandlerEmail(req) == IF req.hasRegistrant THEN req.regEmail ELSE req.objEmail

\* let email = registrant.email || ''; email = email.trim().toLowerCase()
NormalizeEmail(raw) == IF Truthy(raw) THEN ToLowerCase(Trim(raw)) ELSE <<>>

\* handleRegistrationEvent up to its first await, Contact.findOne: a
\* registration with no email is skipped (the handler then answers 200).
HandleRegistrationStart(r) ==
    LET email == NormalizeEmail(HandlerEmail(r.req)) IN
    IF ~Truthy(email) THEN Reply(r, 200, "Webhook received")
    ELSE [r EXCEPT !.pc = "contactFind", !.email = email]

\* What follows the idempotency check: registrations are handled, every
\* other event type is only acknowledged.
Dispatch(r) ==
    IF IsRegistration(r.req.event) THEN HandleRegistrationStart(r)
    ELSE Reply(r, 200, "Webhook received")

\* Mutant of HandleUrlValidation: the token is returned as it came.
HandleUrlValidationUnsigned(r) ==
    IF ~Truthy(r.req.plainToken) \/ ~Truthy(r.req.secret)
    THEN Reply(r, 400, "Missing token or configuration")
    ELSE [Reply(r, 200, "plainToken, encryptedToken")
             EXCEPT !.encryptedToken = r.req.plainToken]

\* Zoom's URL validation challenge: the answer is the token and its HMAC
\* under the secret token, or 400 when either is missing.
HandleUrlValidation(r) ==
    IF ~Truthy(r.req.plainToken) \/ ~Truthy(r.req.secret)
    THEN Reply(r, 400, "Missing token or configuration")
    ELSE [Reply(r, 200, "plainToken, encryptedToken")
             EXCEPT !.encryptedToken = Hmac(r.req.secret, r.req.plainToken)]

\* Mutant of ZoomStart: the event is dispatched without the idempotency check.
ZoomStartSkipsLedger(r) ==
    IF r.req.event = UrlValidation THEN HandleUrlValidation(r)
    ELSE IF r.req.verify /\ ~VerifyZoomSignature(r.req)
        THEN Reply(r, 401, "Invalid signature")
    ELSE [Dispatch(r) EXCEPT !.eventId = DeriveEventId(r.req)]

\* The handler from the arrival of the request to its first await.
ZoomStart(r) ==
    IF r.req.event = UrlValidation THEN HandleUrlValidation(r)
    ELSE IF r.req.verify /\ ~VerifyZoomSignature(r.req)
        THEN Reply(r, 401, "Invalid signature")
    ELSE LET eventId == DeriveEventId(r.req) IN
        IF Truthy(eventId) THEN [r EXCEPT !.pc = "ledgerFind", !.eventId = eventId]
        ELSE Dispatch(r)

\* ------------------------------------------------------------------------
\* The collections and the GHL location
\* ------------------------------------------------------------------------

\* Mutant of LedgerFind: the idempotency lookup never finds the event.
LedgerFindNothing(eventId) == {}

\* ZoomEvent.findOne({ eventId })
LedgerFind(eventId) == {row \in ledger : row.eventId = eventId}

\* Mutant of LedgerDuplicateKey: eventId is indexed without `unique`.
LedgerNotUnique(eventId) == FALSE

\* The unique index on ZoomEvent.eventId refuses a second document with the
\* same eventId (MongoDB error E11000).
LedgerDuplicateKey(eventId) == \E row \in ledger : row.eventId = eventId

\* Mutant of SchemaEmail: the schema declares no setters for email.
SchemaEmailAsGiven(email) == email

\* The setters of ContactSchema.email (lowercase, trim), which Mongoose applies
\* to documents, updates and query filters alike; an absent email stays absent.
SchemaEmail(email) == IF email = UndefinedStr THEN UndefinedStr ELSE ToLowerCase(Trim(email))

\* Contact.findOne({ email })
ContactFind(email) == {row \in contacts : row.email = SchemaEmail(email)}

\* Mutant of ContactDuplicateKey: email is indexed without `unique`.
ContactNotUnique(email, self) == FALSE

\* The unique index on Contact.email, which is not sparse: a document without
\* an email is indexed under null, so it collides with any other document
\* without an email.  `self` is the _id of the document being written.
ContactDuplicateKey(email, self) ==
    \E row \in contacts : row._id # self /\ row.email = email

\* _id of the Contact document inserted by zoom delivery d / configuration
\* delivery k (each delivery inserts at most one).
ZoomRowId(d) == d

CfgRowId(k) == MaxZoom + k

\* GHL stores and matches emails trimmed and lower-cased.
RemoteEmail(email) == IF Truthy(email) THEN ToLowerCase(Trim(email)) ELSE <<>>

\* The text q occurs in the text s.
Contains(s, q) ==
    \E i \in 0..(Len(s) - Len(q)) : SubSeq(s, i + 1, i + Len(q)) = q

\* GET /contacts/?query=email : a free-text query, which GHL answers with the
\* contacts of the location in whose fields the text occurs, in an order of
\* its own; the email of a contact returned need not be the email asked for.
RemoteMatches(email) == {rc \in remote : Contains(rc.email, RemoteEmail(email))}

\* The contacts of the location that have this very email, which is what a
\* location that refuses duplicates goes by when a contact is created.
RemoteHolds(email) == {rc \in remote : rc.email = RemoteEmail(email)}

\* The id GHL gives the contact created for zoom delivery d.
NewRemoteId(d) == "g" \o ToString(d)

SearchStatuses == {200, 404, 403, 500}

CreateStatuses == {200, 400, 500}

\* process.env.GHL_WORKFLOW_ID, read after the add-tags call.
WorkflowIds == {Undefined, "wf1"}

\* ------------------------------------------------------------------------
\* POST /zoom-webhook: one action per await
\* ------------------------------------------------------------------------

\* A delivery arrives; the handler runs to its first await.  (Deliveries are
\* numbered in the order they arrive.)
ZoomReceive(d, req) ==
    /\ z[d].pc = "idle"
    /\ \A e \in DOMAIN z : e < d => z[e].pc # "idle"
    /\ z' = [z EXCEPT ![d] = ZoomStart([@ EXCEPT !.req = req])]
    /\ h' = [h EXCEPT ![d].identity = z'[d].eventId,
                      ![d].email = z'[d].email,
                      ![d].dupAtStart = \E row \in ledger : row.eventId = z'[d].eventId,
                      ![d].verAtStart = version]
    /\ UNCHANGED <<c, ledger, contacts, settings, remote, version>>

\* await ZoomEvent.findOne({ eventId }) answers.
LedgerFindOne(d) ==
    /\ z[d].pc = "ledgerFind"
    /\ IF LedgerFind(z[d].eventId) # {}
       THEN z' = [z EXCEPT ![d] = Reply(@, 200, "Duplicate event")]
       ELSE z' = [z EXCEPT ![d].pc = "ledgerCreate"]
    /\ h' = Logged(d, "ledgerFind", "ok")
    /\ UNCHANGED <<c, ledger, contacts, settings, remote, version>>

\* Mutant of LedgerInsert: the collection keeps the latest event only.
LedgerKeepsLatest(row) == {row}

\* The ZoomEvent collection after the insert of a document.
LedgerInsert(row) == ledger \cup {row}

\* await ZoomEvent.create({ eventId, eventType, email }) answers: a rejected
\* insert throws into the handler's catch, which answers 500.
LedgerCreate(d) ==
    /\ z[d].pc = "ledgerCreate"
    /\ IF ~Truthy(z[d].req.event)
       THEN /\ z' = [z EXCEPT ![d] = Reply(@, 500, "Internal server error")]
            /\ h' = Logged(d, "ledgerCreate", "ValidationError")
            /\ UNCHANGED ledger
       ELSE IF LedgerDuplicateKey(z[d].eventId)
       THEN /\ z' = [z EXCEPT ![d] = Reply(@, 500, "Internal server error")]
            /\ h' = Logged(d, "ledgerCreate", "E11000")
            /\ UNCHANGED ledger
       ELSE /\ ledger' = LedgerInsert([_id |-> d, eventId |-> z[d].eventId,
                                       eventType |-> z[d].req.event,
                                       email |-> RegistrantEmail(z[d].req)])
            /\ z' = [z EXCEPT ![d] = Dispatch(@)]
            /\ h' = [Logged(d, "ledgerCreate", "ok") EXCEPT ![d].email = z'[d].email]
    /\ UNCHANGED <<c, contacts, settings, remote, version>>

\* Mutant of NeedsRemoteLookup: GHL is searched whatever the lookup found.
AlwaysLookup(contact) == TRUE

\* Mutant of NeedsRemoteLookup: GHL is searched only when no record was
\* found, as it was before link repair was introduced.
LookupOnlyIfMissing(contact) == contact = Null

\* !contact || !contact.ghlContactId : the record is missing or unlinked.
NeedsRemoteLookup(contact) == contact = Null \/ ~TruthyId(contact.ghlContactId)

\* await Contact.findOne({ email }) answers: a linked record is the fast
\* path, a missing or unlinked one leads to the GHL search.
ContactFindOne(d) ==
    /\ z[d].pc = "contactFind"
    /\ \E found \in (IF ContactFind(z[d].email) = {} THEN {Null} ELSE ContactFind(z[d].email)) :
         LET id == IF found = Null THEN Undefined ELSE found.ghlContactId IN
         /\ z' = [z EXCEPT ![d].contact = found, ![d].ghlContactId = id,
                           ![d].pc = IF NeedsRemoteLookup(found) THEN "search"
                                     ELSE "settingsRead"]
         /\ h' = [Logged(d, "contactFind", "ok")
                     EXCEPT ![d].found = IF found = Null THEN "null"
                                         ELSE IF TruthyId(id) THEN "linked" ELSE "unlinked",
                            ![d].via = IF NeedsRemoteLookup(found) THEN "" ELSE "local",
                            ![d].resolved = id]
    /\ UNCHANGED <<c, ledger, contacts, settings, remote, version>>

\* After the search and the creation: step 4 saves the id if there is one,
\* then step 5 reads the global tag.
AfterResolve(r, id) ==
    [r EXCEPT !.ghlContactId = id,
              !.pc = IF TruthyId(id) THEN "contactWrite" ELSE "settingsRead"]

\* Mutant of AfterSearch: a 403 from the search ends the resolution.
AfterSearchStopOn403(r, status, hit) ==
    IF hit # Null THEN AfterResolve(r, hit.id)
    ELSE IF status = 403 THEN Reply(r, 200, "Webhook received")
    ELSE [r EXCEPT !.pc = "create"]

\* Mutant of AfterSearch: the contact is created whatever the search found.
AfterSearchAlwaysCreates(r, status, hit) == [r EXCEPT !.pc = "create"]

\* Mutant of AfterSearch: a failed search is answered with the status GHL
\* gave.
AfterSearchSurfacesStatus(r, status, hit) ==
    IF hit # Null THEN AfterResolve(r, hit.id)
    ELSE IF status \in {200, 404} THEN [r EXCEPT !.pc = "create"]
    ELSE Reply(r, status, "Internal server error")

\* The search has answered with `status` and, when a contact matched, `hit`:
\* a contact found supplies the id, anything else leads to the creation.
AfterSearch(r, status, hit) ==
    IF hit # Null THEN AfterResolve(r, hit.id) ELSE [r EXCEPT !.pc = "create"]

\* await searchGHLContact(email) answers.  GHL answers 200 with the matching
\* contacts, or fails; searchGHLContact turns a 404 into null and rethrows
\* every other failure, which the caller logs and ignores, so that in all
\* these cases ghlContact stays null and the creation follows.
GhlSearch(d, status) ==
    /\ z[d].pc = "search"
    /\ \E hit \in (IF status = 200 /\ RemoteMatches(z[d].email) # {}
                   THEN RemoteMatches(z[d].email) ELSE {Null}) :
         /\ z' = [z EXCEPT ![d] = AfterSearch(@, status, hit)]
         /\ h' = [Logged(d, "search", IF hit # Null THEN "found"
                                       ELSE IF status = 200 THEN "none" ELSE ToString(status))
                     EXCEPT ![d].via = IF hit # Null THEN "found" ELSE "",
                            ![d].resolved = z'[d].ghlContactId]
    /\ UNCHANGED <<c, ledger, contacts, settings, remote, version>>

\* What the catch around createGHLContact makes of a failed creation: a 400
\* whose body carries meta.contactId yields that id, anything else yields
\* none (and handleRegistrationEvent returns).
RecoveredId(status, metaContactId) ==
    IF status = 400 /\ TruthyId(metaContactId) THEN metaContactId ELSE Undefined

\* Mutant of AfterCreateFailure: the `return` is missing, so step 5 follows.
AfterCreateFailureFallsThrough(r) == [r EXCEPT !.pc = "settingsRead"]

\* The creation failed and no id was recovered: handleRegistrationEvent
\* returns, and the handler answers 200.
AfterCreateFailure(r) == Reply(r, 200, "Webhook received")

\* await createGHLContact(registrant) answers.  Nothing in the service
\* decides what GHL does with an email it already holds: GHL may create the
\* contact all the same (200: the location allows duplicates, or two
\* creations for one email crossed), it may answer 400 with the id of a
\* contact holding the email in meta.contactId, or 400 without an id (as for
\* any other bad request), and it may fail (500, timeout) at any time.
GhlCreate(d, status) ==
    /\ z[d].pc = "create"
    /\ LET existing == RemoteHolds(HandlerEmail(z[d].req)) IN
       CASE status = 200 ->
              /\ remote' = remote \cup {[id |-> NewRemoteId(d),
                                         email |-> RemoteEmail(HandlerEmail(z[d].req))]}
              /\ z' = [z EXCEPT ![d] = AfterResolve(@, NewRemoteId(d))]
              /\ h' = [Logged(d, "create", "created")
                          EXCEPT ![d].via = "created", ![d].resolved = NewRemoteId(d)]
         [] status = 400 ->
              \E meta \in {Undefined} \cup {rc.id : rc \in existing} :
                /\ z' = [z EXCEPT ![d] =
                           IF TruthyId(RecoveredId(status, meta))
                           THEN AfterResolve(@, RecoveredId(status, meta))
                           ELSE AfterCreateFailure(@)]
                /\ h' = [Logged(d, "create", IF TruthyId(meta) THEN "conflict" ELSE "400")
                            EXCEPT ![d].via = IF TruthyId(RecoveredId(status, meta))
                                              THEN "conflict" ELSE "",
                                   ![d].resolved = RecoveredId(status, meta)]
                /\ UNCHANGED remote
         [] OTHER ->
              /\ z' = [z EXCEPT ![d] = AfterCreateFailure(@)]
              /\ h' = Logged(d, "create", ToString(status))
              /\ UNCHANGED remote
    /\ UNCHANGED <<c, ledger, contacts, settings, version>>

\* Mutant of ExistsLocally: step 4 always inserts, as it did before link
\* repair was introduced.
AlwaysInsert(contact) == FALSE

\* if (contact) : step 4 updates the record step 1 found, else inserts one.
ExistsLocally(contact) == contact # Null

\* Step 4 answers: Contact.updateOne({ _id }, { ghlContactId }) links the
\* record found unlinked; otherwise Contact.create inserts a new record, and a
\* rejected insert throws into the catch of handleRegistrationEvent, which
\* logs it and returns (the handler then answers 200).
ContactWrite(d) ==
    /\ z[d].pc = "contactWrite"
    /\ IF ExistsLocally(z[d].contact)
       THEN /\ contacts' = {IF row._id = z[d].contact._id
                            THEN [row EXCEPT !.ghlContactId = z[d].ghlContactId]
                            ELSE row : row \in contacts}
            /\ z' = [z EXCEPT ![d].pc = "settingsRead"]
            /\ h' = Logged(d, "contactWrite", "updated")
       ELSE IF ContactDuplicateKey(SchemaEmail(z[d].email), ZoomRowId(d))
       THEN /\ z' = [z EXCEPT ![d] = Reply(@, 200, "Webhook received")]
            /\ h' = Logged(d, "contactWrite", "E11000")
            /\ UNCHANGED contacts
       ELSE /\ contacts' = contacts \cup {[_id |-> ZoomRowId(d),
                                           email |-> SchemaEmail(z[d].email),
                                           ghlContactId |-> z[d].ghlContactId]}
            /\ z' = [z EXCEPT ![d].pc = "settingsRead",
                              ![d].contact = [_id |-> ZoomRowId(d),
                                              email |-> SchemaEmail(z[d].email),
                                              ghlContactId |-> z[d].ghlContactId]]
            /\ h' = Logged(d, "contactWrite", "created")
    /\ UNCHANGED <<c, ledger, settings, remote, version>>

\* Mutant of GlobalTag: the tag is the hard-coded default.
GlobalTagHardCoded(stored) == "Zoom Registration"

\* globalTagSetting?.value || 'Zoom Registration'
GlobalTag(stored) == IF TruthyId(stored) THEN stored ELSE "Zoom Registration"

\* const tags = [globalTag, 'zoom registered']
TagList(globalTag) == <<globalTag, "zoom registered">>

\* Mutant of SettingsFindOne: the read is an upsert that stores the default
\* tag when none is stored.
SettingsFindOneStoresDefault(d) ==
    /\ z[d].pc = "settingsRead"
    /\ z' = [z EXCEPT ![d].tags = TagList(GlobalTag(settings)), ![d].pc = "addTags"]
    /\ h' = [Logged(d, "settingsRead", "ok") EXCEPT ![d].settingAtRead = settings]
    /\ settings' = GlobalTag(settings)
    /\ UNCHANGED <<c, ledger, contacts, remote, version>>

\* await Settings.findOne({ key: 'globalZoomTag' }) answers.
SettingsFindOne(d) ==
    /\ z[d].pc = "settingsRead"
    /\ z' = [z EXCEPT ![d].tags = TagList(GlobalTag(settings)), ![d].pc = "addTags"]
    /\ h' = [Logged(d, "settingsRead", "ok") EXCEPT ![d].settingAtRead = settings]
    /\ UNCHANGED <<c, ledger, contacts, settings, remote, version>>

\* Mutant of AfterAddTags: nothing catches the failure of the add-tags call
\* before the handler's own catch.
AfterAddTagsUncaught(r, ok, wf) ==
    IF ~ok THEN Reply(r, 500, "Internal server error")
    ELSE IF TruthyId(wf) THEN [r EXCEPT !.pc = "workflow", !.workflowId = wf]
    ELSE Reply(r, 200, "Webhook received")

\* Mutant of AfterAddTags: the workflow is triggered whether or not the
\* add-tags call succeeded.
AfterAddTagsEnrollsAnyway(r, ok, wf) ==
    IF TruthyId(wf) THEN [r EXCEPT !.pc = "workflow", !.workflowId = wf]
    ELSE Reply(r, 200, "Webhook received")

\* The add-tags call has answered: on success the workflow is triggered when
\* GHL_WORKFLOW_ID is set; a failure throws into the catch of
\* handleRegistrationEvent, which logs it and returns (the handler then
\* answers 200).
AfterAddTags(r, ok, wf) ==
    IF ok /\ TruthyId(wf) THEN [r EXCEPT !.pc = "workflow", !.workflowId = wf]
    ELSE Reply(r, 200, "Webhook received")

\* await addGHLTags(ghlContactId, tags) answers.
AddGHLTags(d, ok) ==
    /\ z[d].pc = "addTags"
    /\ \E wf \in WorkflowIds : z' = [z EXCEPT ![d] = AfterAddTags(@, ok, wf)]
    /\ h' = [Logged(d, "addTags", IF ok THEN "ok" ELSE "error")
                EXCEPT ![d].tagsTo = z[d].ghlContactId, ![d].tagsSent = z[d].tags]
    /\ UNCHANGED <<c, ledger, contacts, settings, remote, version>>

\* Mutant of AfterWorkflow: the failure of the workflow call is not swallowed.
AfterWorkflowUncaught(r, ok) ==
    IF ok THEN Reply(r, 200, "Webhook received")
    ELSE Reply(r, 500, "Internal server error")

\* The workflow call has answered: its failure is logged and swallowed by the
\* try/catch around it, handleRegistrationEvent returns either way and the
\* handler answers 200.
AfterWorkflow(r, ok) == Reply(r, 200, "Webhook received")

\* await addContactToWorkflow(ghlContactId, workflowId) answers.
AddContactToWorkflow(d, ok) ==
    /\ z[d].pc = "workflow"
    /\ z' = [z EXCEPT ![d] = AfterWorkflow(@, ok)]
    /\ h' = Logged(d, "workflow", IF ok THEN "ok" ELSE "error")
    /\ UNCHANGED <<c, ledger, contacts, settings, remote, version>>

\* ------------------------------------------------------------------------
\* POST /ghl-webhook
\* ------------------------------------------------------------------------

\* const payload = data.customData || data
Payload(body) == IF body.customData # Null THEN body.customData ELSE body

\* An email that is empty after trim() becomes undefined.
SanitizeEmail(email) ==
    IF email # UndefinedStr /\ Trim(email) = <<>> THEN UndefinedStr ELSE email

\* res.status(status).json(...) in the configuration handler.
CfgReply(r, status, message) == [r EXCEPT !.pc = "done", !.status = status, !.message = message]

\* Mutant of CfgStart: the tag logic runs before the request is validated.
CfgStartTagFirst(r) ==
    LET payload == Payload(r.body)
        email == SanitizeEmail(payload.email)
        got == [r EXCEPT !.contactId = payload.contactId, !.email = email,
                         !.zoom_tag = payload.zoom_tag]
    IN  IF TruthyId(payload.zoom_tag) THEN [got EXCEPT !.pc = "settingsFind"]
        ELSE IF ~Truthy(email) /\ ~TruthyId(payload.contactId)
        THEN CfgReply(got, 400, "Missing email or contactId")
        ELSE [got EXCEPT !.pc = "contactUpsert"]

\* The handler from the arrival of the request to its first await.
CfgStart(r) ==
    LET payload == Payload(r.body)
        email == SanitizeEmail(payload.email)
        got == [r EXCEPT !.contactId = payload.contactId, !.email = email,
                         !.zoom_tag = payload.zoom_tag]
    IN  IF ~Truthy(email) /\ ~TruthyId(payload.contactId)
        THEN CfgReply(got, 400, "Missing email or contactId")
        ELSE [got EXCEPT !.pc = IF TruthyId(payload.zoom_tag) THEN "settingsFind"
                                ELSE "contactUpsert"]

CfgReceive(k, body) ==
    /\ c[k].pc = "idle"
    /\ \A j \in DOMAIN c : j < k => c[j].pc # "idle"
    /\ c' = [c EXCEPT ![k] = CfgStart([@ EXCEPT !.body = body])]
    /\ UNCHANGED <<z, ledger, contacts, settings, remote, h, version>>

\* Mutant of TagChanged: the tag is written whatever is stored.
TagAlwaysWritten(stored, zoomTag) == TRUE

\* !currentSetting || currentSetting.value !== zoom_tag
TagChanged(stored, zoomTag) == stored = Undefined \/ stored # zoomTag

\* await Settings.findOne({ key: 'globalZoomTag' }) answers.
CfgSettingsFindOne(k) ==
    /\ c[k].pc = "settingsFind"
    /\ c' = [c EXCEPT ![k].pc = IF TagChanged(settings, c[k].zoom_tag)
                                THEN "settingsUpdate" ELSE "contactUpsert"]
    /\ UNCHANGED <<z, ledger, contacts, settings, remote, h, version>>

\* await Settings.findOneAndUpdate({ key }, { value: zoom_tag }, { upsert })
\* answers.
CfgSettingsUpdate(k) ==
    /\ c[k].pc = "settingsUpdate"
    /\ settings' = c[k].zoom_tag
    /\ version' = version + 1
    /\ c' = [c EXCEPT ![k].pc = "contactUpsert"]
    /\ UNCHANGED <<z, ledger, contacts, remote, h>>

\* Mutant of UpsertMatches: the write is an insert, nothing is looked up.
UpsertNeverMatches(contactId, email) == {}

\* The documents Contact.findOneAndUpdate(filter, ...) selects: by
\* ghlContactId when the request carries a contactId, else by email.
UpsertMatches(contactId, email) ==
    IF TruthyId(contactId) THEN {row \in contacts : row.ghlContactId = contactId}
    ELSE {row \in contacts : row.email = SchemaEmail(email)}

\* The document after the update { ghlContactId: contactId, email, ... }:
\* Mongoose leaves out the fields whose value is undefined.
Updated(row, contactId, email) ==
    [row EXCEPT !.ghlContactId = IF contactId = Undefined THEN @ ELSE contactId,
                !.email = IF email = UndefinedStr THEN @ ELSE SchemaEmail(email)]

\* The document an upsert inserts when nothing matches: the filter's field
\* and the defined fields of the update (a contactId of '' is defined, and
\* is written as it is).
Upserted(k, contactId, email) ==
    [_id |-> CfgRowId(k), email |-> SchemaEmail(email), ghlContactId |-> contactId]

\* await Contact.findOneAndUpdate(filter, update, { new, upsert }) answers; a
\* write the unique email index rejects throws into the handler's catch,
\* which answers 500.
CfgContactUpsert(k) ==
    /\ c[k].pc = "contactUpsert"
    /\ LET matches == UpsertMatches(c[k].contactId, c[k].email) IN
       \E row \in (IF matches = {} THEN {Upserted(k, c[k].contactId, c[k].email)}
                   ELSE matches) :
         LET new == IF matches = {} THEN row ELSE Updated(row, c[k].contactId, c[k].email) IN
         IF ContactDuplicateKey(new.email, new._id)
         THEN /\ c' = [c EXCEPT ![k] = CfgReply(@, 500, "Internal server error")]
              /\ UNCHANGED contacts
         ELSE /\ contacts' = (contacts \ {row}) \cup {new}
              /\ c' = [c EXCEPT ![k] = CfgReply(@, 200, "Contact synced")]
    /\ UNCHANGED <<z, ledger, settings, remote, h, version>>

\* ------------------------------------------------------------------------
\* The system
\* ------------------------------------------------------------------------

Next ==
    \/ \E d \in DOMAIN z, req \in ZoomRequests : ZoomReceive(d, req)
    \/ \E d \in DOMAIN z : LedgerFindOne(d)
    \/ \E d \in DOMAIN z : LedgerCreate(d)
    \/ \E d \in DOMAIN z : ContactFindOne(d)
    \/ \E d \in DOMAIN z, status \in SearchStatuses : GhlSearch(d, status)
    \/ \E d \in DOMAIN z, status \in CreateStatuses : GhlCreate(d, status)
    \/ \E d \in DOMAIN z : ContactWrite(d)
    \/ \E d \in DOMAIN z : SettingsFindOne(d)
    \/ \E d \in DOMAIN z, ok \in BOOLEAN : AddGHLTags(d, ok)
    \/ \E d \in DOMAIN z, ok \in BOOLEAN : AddContactToWorkflow(d, ok)
    \/ \E k \in DOMAIN c, body \in CfgRequests : CfgReceive(k, body)
    \/ \E k \in DOMAIN c : CfgSettingsFindOne(k)
    \/ \E k \in DOMAIN c : CfgSettingsUpdate(k)
    \/ \E k \in DOMAIN c : CfgContactUpsert(k)

Spec == Init /\ [][Next]_vars

\* ------------------------------------------------------------------------
\* Configuration intake on its own: more deliveries to POST /ghl-webhook and
\* more kinds of them, no delivery to POST /zoom-webhook
\* ------------------------------------------------------------------------

\* Number of deliveries to POST /ghl-webhook in this specification.
MaxCfgOnly == 2

CfgOnlyRequests ==
    CfgRequests \cup
    { CfgBody("c2", <<>>, "Promo"),
      CfgBody("c2", UndefinedStr, Undefined),
      CfgBody("c1", <<" ">>, "Promo"),
      CfgBody(Undefined, UndefinedStr, "Promo"),
      CfgBody("", <<>>, Undefined),
      CfgBody("", <<"a">>, Undefined) }

InitCfg ==
    /\ z = <<>>
    /\ c = [k \in 1..MaxCfgOnly |-> CfgIdle]
    /\ ledger = {}
    /\ contacts = {}
    /\ settings = Undefined
    /\ remote = {}
    /\ h = <<>>
    /\ version = 0

NextCfg ==
    \/ \E k \in DOMAIN c, body \in CfgOnlyRequests : CfgReceive(k, body)
    \/ \E k \in DOMAIN c : CfgSettingsFindOne(k)
    \/ \E k \in DOMAIN c : CfgSettingsUpdate(k)
    \/ \E k \in DOMAIN c : CfgContactUpsert(k)

SpecCfg == InitCfg /\ [][NextCfg]_vars

\* ------------------------------------------------------------------------
\* The service with a database that may be unreachable: any awaited store
\* operation may reject instead of answering
\* ------------------------------------------------------------------------

\* Number of deliveries to POST /zoom-webhook in this specification.
MaxZoomFault == 2

\* ZoomEvent.findOne or ZoomEvent.create rejects: the error reaches the catch
\* of the handler, which answers 500.
LedgerUnavailable(d) ==
    /\ z[d].pc \in {"ledgerFind", "ledgerCreate"}
    /\ z' = [z EXCEPT ![d] = Reply(@, 500, "Internal server error")]
    /\ h' = Logged(d, z[d].pc, "unavailable")
    /\ UNCHANGED <<c, ledger, contacts, settings, remote, version>>

\* Mutant of RegistrationStoreUnavailable: handleRegistrationEvent has no
\* catch of its own, so the error reaches the catch of the handler.
RegistrationStoreUncaught(d) ==
    /\ z[d].pc \in {"contactFind", "contactWrite", "settingsRead"}
    /\ z' = [z EXCEPT ![d] = Reply(@, 500, "Internal server error")]
    /\ h' = Logged(d, z[d].pc, "unavailable")
    /\ UNCHANGED <<c, ledger, contacts, settings, remote, version>>

\* Contact.findOne, Contact.updateOne, Contact.create or Settings.findOne
\* rejects inside handleRegistrationEvent: the error reaches the catch of
\* that function, which logs it and returns, and the handler answers 200.
RegistrationStoreUnavailable(d) ==
    /\ z[d].pc \in {"contactFind", "contactWrite", "settingsRead"}
    /\ z' = [z EXCEPT ![d] = Reply(@, 200, "Webhook received")]
    /\ h' = Logged(d, z[d].pc, "unavailable")
    /\ UNCHANGED <<c, ledger, contacts, settings, remote, version>>

\* Mutant of CfgStoreUnavailable: the handler has no catch, so the rejection
\* is unhandled and the request is left without an answer.
CfgStoreUnhandled(k) ==
    /\ c[k].pc \in {"settingsFind", "settingsUpdate", "contactUpsert"}
    /\ c' = [c EXCEPT ![k].pc = "rejected", ![k].failed = TRUE]
    /\ UNCHANGED <<z, ledger, contacts, settings, remote, h, version>>

\* Settings.findOne, Settings.findOneAndUpdate or Contact.findOneAndUpdate
\* rejects in the configuration handler: its catch answers 500.
CfgStoreUnavailable(k) ==
    /\ c[k].pc \in {"settingsFind", "settingsUpdate", "contactUpsert"}
    /\ c' = [c EXCEPT ![k] = [CfgReply(@, 500, "Internal server error")
                                 EXCEPT !.failed = TRUE]]
    /\ UNCHANGED <<z, ledger, contacts, settings, remote, h, version>>

InitFault ==
    /\ z = [d \in 1..MaxZoomFault |-> ZoomIdle]
    /\ c = [k \in Cfgs |-> CfgIdle]
    /\ ledger = {}
    /\ contacts = {}
    /\ settings = Undefined
    /\ remote \in RemoteInits
    /\ h = [d \in 1..MaxZoomFault |-> HistoryNone]
    /\ version = 0

NextFault ==
    \/ Next
    \/ \E d \in DOMAIN z : LedgerUnavailable(d)
    \/ \E d \in DOMAIN z : RegistrationStoreUnavailable(d)
    \/ \E k \in DOMAIN c : CfgStoreUnavailable(k)

SpecFault == InitFault /\ [][NextFault]_vars

\* ------------------------------------------------------------------------
\* The same service when every awaited operation eventually returns or fails
\* ------------------------------------------------------------------------

\* Number of deliveries to each webhook in this specification.
MaxZoomLive == 1

MaxCfgLive == 2

\* The operation zoom delivery d awaits returns or fails.
ZoomAwaitSettles(d) ==
    \/ LedgerFindOne(d)
    \/ LedgerCreate(d)
    \/ ContactFindOne(d)
    \/ \E status \in SearchStatuses : GhlSearch(d, status)
    \/ \E status \in CreateStatuses : GhlCreate(d, status)
    \/ ContactWrite(d)
    \/ SettingsFindOne(d)
    \/ \E ok \in BOOLEAN : AddGHLTags(d, ok)
    \/ \E ok \in BOOLEAN : AddContactToWorkflow(d, ok)
    \/ LedgerUnavailable(d)
    \/ RegistrationStoreUnavailable(d)

\* The operation configuration delivery k awaits returns or fails.
CfgAwaitSettles(k) ==
    \/ CfgSettingsFindOne(k)
    \/ CfgSettingsUpdate(k)
    \/ CfgContactUpsert(k)
    \/ CfgStoreUnavailable(k)

\* The GHL location of the liveness specification starts empty or holding
\* the contact c1 with email a.
RemoteInitsLive ==
    { {}, {[id |-> "c1", email |-> <<"a">>]} }

InitLive ==
    /\ z = [d \in 1..MaxZoomLive |-> ZoomIdle]
    /\ c = [k \in 1..MaxCfgLive |-> CfgIdle]
    /\ ledger = {}
    /\ contacts = {}
    /\ settings = Undefined
    /\ remote \in RemoteInitsLive
    /\ h = [d \in 1..MaxZoomLive |-> HistoryNone]
    /\ version = 0

SpecLive ==
    /\ InitLive
    /\ [][NextFault]_vars
    /\ \A d \in 1..MaxZoomLive : WF_vars(ZoomAwaitSettles(d))
    /\ \A k \in 1..MaxCfgLive : WF_vars(CfgAwaitSettles(k))

\* ------------------------------------------------------------------------
\* Vocabulary of the properties
\* ------------------------------------------------------------------------

Range(seq) == {seq[i] : i \in DOMAIN seq}

\* Delivery d has completed step op (a store operation or a remote call).
Did(d, op) == op \in Range(h[d].steps)

\* The step delivery d completed last.
LastStep(d) == IF h[d].steps = <<>> THEN "" ELSE h[d].steps[Len(h[d].steps)]

Received(d) == z[d].pc # "idle"

Done(d) == z[d].pc = "done"

\* The contact-resolution and tagging side effects of a delivery.
SideEffectOps == {"search", "create", "addTags", "workflow", "contactWrite"}

SideEffects(d) == Range(h[d].steps) \cap SideEffectOps

\* Two deliveries for which the handler derived the same event identity.
SameIdentity(d, e) ==
    /\ d # e
    /\ Truthy(h[d].identity)
    /\ h[d].identity = h[e].identity

LedgerRowsOf(eventId) == {row \in ledger : row.eventId = eventId}

\* The local records and the remote contacts of a normalized email.
LocalOf(email) == {row \in contacts : row.email = email}

RemoteOf(email) == {rc \in remote : rc.email = email}

\* ------------------------------------------------------------------------
\* C1..C4: the Event Ledger and the event identity
\* ------------------------------------------------------------------------

\* C1: of two deliveries with the same event identity at most one performs
\* contact-resolution or tagging side effects (search, create, add-tags,
\* workflow enrollment, Contact Record write); and a delivery that arrives
\* when the Ledger already holds its identity performs nothing but the Ledger
\* lookup and is answered 200 "Duplicate event".
C1_OnlyFirstHasSideEffects ==
    /\ \A d, e \in DOMAIN z :
         SameIdentity(d, e) => SideEffects(d) = {} \/ SideEffects(e) = {}
    /\ \A d \in DOMAIN z :
         h[d].dupAtStart =>
           /\ Range(h[d].steps) \subseteq {"ledgerFind"}
           /\ Done(d) => z[d].status = 200 /\ z[d].message = "Duplicate event"

\* C1 witness: a retried delivery arrived after the first had been recorded
\* and resolved, and was answered as a duplicate.
C1_Witness ==
    \E d, e \in DOMAIN z :
      /\ SameIdentity(d, e)
      /\ Did(d, "addTags")
      /\ h[e].dupAtStart /\ Done(e) /\ z[e].message = "Duplicate event"

\* C2 (as claimed): a delivery whose event identity is recorded in the Ledger
\* by another delivery is answered 200 "Duplicate event", never 500.
C2_LoserAnsweredDuplicate ==
    \A d \in DOMAIN z :
      (/\ Done(d)
       /\ Truthy(h[d].identity)
       /\ \E row \in LedgerRowsOf(h[d].identity) : row._id # d)
      => z[d].status = 200 /\ z[d].message = "Duplicate event"

\* C3: the Ledger never holds two entries with the same event identity, and
\* once every delivery of a registration's identity is answered, with at
\* least two of them, it holds exactly one entry for it.
C3_OneEntryPerIdentity ==
    /\ \A r1, r2 \in ledger : r1.eventId = r2.eventId => r1 = r2
    /\ \A d, e \in DOMAIN z :
         (/\ SameIdentity(d, e)
          /\ IsRegistration(z[d].req.event)
          /\ Done(d) /\ Done(e))
         => Cardinality(LedgerRowsOf(h[d].identity)) = 1

\* C3 witness: the same registration was delivered twice, concurrently, and
\* both deliveries have been answered.
C3_Witness ==
    \E d, e \in DOMAIN z :
      /\ SameIdentity(d, e)
      /\ IsRegistration(z[d].req.event)
      /\ Done(d) /\ Done(e)
      /\ ~h[d].dupAtStart /\ ~h[e].dupAtStart
      /\ Cardinality(LedgerRowsOf(h[d].identity)) = 1

\* Two registrations of the same session and type by different registrants,
\* both having passed the intake gate.
SameSessionOtherRegistrant(d, e) ==
    /\ d # e
    /\ Received(d) /\ Received(e)
    /\ IsRegistration(z[d].req.event)
    /\ z[d].req.event = z[e].req.event
    /\ Truthy(z[d].req.id) /\ z[d].req.id = z[e].req.id
    /\ Truthy(RegistrantEmail(z[d].req)) /\ Truthy(RegistrantEmail(z[e].req))
    /\ RegistrantEmail(z[d].req) # RegistrantEmail(z[e].req)
    /\ Truthy(h[d].identity) /\ Truthy(h[e].identity)

\* C4: two registrations with the same parent id and event type and different
\* registrant emails get different event identities; unless a third delivery
\* shares its identity, each, once answered, has written its own Ledger entry
\* and run its own contact resolution.
C4_DistinctRegistrantsDistinctEvents ==
    \A d, e \in DOMAIN z :
      SameSessionOtherRegistrant(d, e) =>
        /\ h[d].identity # h[e].identity
        /\ (Done(d) /\ \A f \in DOMAIN z : ~SameIdentity(d, f)) =>
             /\ \E row \in ledger : row._id = d /\ row.eventId = h[d].identity
             /\ Did(d, "contactFind")
             /\ z[d].message # "Duplicate event"

\* C4 witness: two registrants of the same webinar, both recorded and both
\* resolved.
C4_Witness ==
    \E d, e \in DOMAIN z :
      /\ SameSessionOtherRegistrant(d, e)
      /\ Done(d) /\ Done(e)
      /\ Cardinality(ledger) = 2
      /\ Did(d, "addTags") /\ Did(e, "addTags")

\* ------------------------------------------------------------------------
\* C5..C9: contact resolution
\* ------------------------------------------------------------------------

\* The normalized email a received delivery reconciles if it gets that far.
EmailOf(d) == NormalizeEmail(HandlerEmail(z[d].req))

\* Configuration delivery k has arrived and names this email.
CfgConcerns(k, email) ==
    /\ c[k].pc # "idle"
    /\ SchemaEmail(SanitizeEmail(Payload(c[k].body).email)) = email

\* The email was unknown locally and remotely before the registrations: every
\* remote contact it has was created for a delivery, and no configuration
\* delivery names it.
Fresh(email) ==
    /\ \A rc \in RemoteOf(email) : \E d \in DOMAIN z : rc.id = NewRemoteId(d)
    /\ \A k \in DOMAIN c : ~CfgConcerns(k, email)

\* Every delivery received so far for the email has been answered.
AllAnswered(email) ==
    \A d \in DOMAIN z : (Received(d) /\ EmailOf(d) = email) => Done(d)

\* Exactly one remote contact and exactly one local record, linked to it.
OneLinkedPair(email) ==
    /\ Cardinality(RemoteOf(email)) = 1
    /\ Cardinality(LocalOf(email)) = 1
    /\ \A row \in LocalOf(email) : \E rc \in RemoteOf(email) : row.ghlContactId = rc.id

\* C5 (as claimed): once the reconciliations of a fresh email have finished
\* there is exactly one remote contact and one local record linked to it.
C5_ExactlyOnePairAlways ==
    \A d \in DOMAIN z :
      (Truthy(h[d].email) /\ Fresh(h[d].email) /\ AllAnswered(h[d].email))
      => OneLinkedPair(h[d].email)

\* The deliveries that reconcile the email and obtained a remote id, and
\* those among them whose create call GHL answered by creating a contact.
Resolvers(email) ==
    {e \in DOMAIN z : h[e].email = email /\ TruthyId(h[e].resolved)}

Creators(email) == {e \in Resolvers(email) : h[e].via = "created"}

\* C5 (amended): once the reconciliations of an email that was unknown
\* locally and remotely, and that no configuration delivery names, have
\* finished: if none of them obtained a remote id there is no remote contact
\* and no local record for it; otherwise there is exactly one local record,
\* linked to an id one of them obtained, which is the id of a contact GHL
\* holds, and the remote contacts of the email are those the reconciliations
\* created, one for each create call that succeeded (none when the search
\* returned a contact, two when both reconciliations created one).
C5_OneRecordLinkedIfResolved ==
    \A d \in DOMAIN z :
      (Truthy(h[d].email) /\ Fresh(h[d].email) /\ AllAnswered(h[d].email))
      => IF Resolvers(h[d].email) # {}
         THEN /\ Cardinality(LocalOf(h[d].email)) = 1
              /\ \A row \in LocalOf(h[d].email) :
                   /\ \E e \in Resolvers(h[d].email) : row.ghlContactId = h[e].resolved
                   /\ \E rc \in remote : rc.id = row.ghlContactId
              /\ RemoteOf(h[d].email) =
                   {[id |-> NewRemoteId(e), email |-> h[d].email] : e \in Creators(h[d].email)}
         ELSE RemoteOf(h[d].email) = {} /\ LocalOf(h[d].email) = {}

\* C5 witness: two reconciliations of a fresh email ran concurrently (neither
\* found a local record, neither search found a contact), both create calls
\* succeeded and both have finished: GHL holds two contacts for the email and
\* the one local record is linked to one of them.
C5_Witness ==
    \E d, e \in DOMAIN z :
      /\ d # e
      /\ Truthy(h[d].email) /\ h[d].email = h[e].email
      /\ Fresh(h[d].email) /\ AllAnswered(h[d].email)
      /\ h[d].found = "null" /\ h[e].found = "null"
      /\ h[d].via = "created" /\ h[e].via = "created"
      /\ Cardinality(RemoteOf(h[d].email)) = 2
      /\ LocalOf(h[d].email) =
           {[_id |-> ZoomRowId(d), email |-> h[d].email, ghlContactId |-> NewRemoteId(d)]}

Repairers(email) ==
    {e \in DOMAIN z :
       h[e].email = email /\ h[e].found = "unlinked" /\ Did(e, "contactWrite")}

C7_SearchFailureLeadsToCreate ==
    \A d \in DOMAIN z :
      (LastStep(d) = "search" /\ h[d].last \in {"404", "403", "500"})
      => z[d].pc = "create"

\* C7 witness: the search answered 403 and the creation is under way.
C7_Witness ==
    \E d \in DOMAIN z :
      LastStep(d) = "search" /\ h[d].last = "403" /\ z[d].pc = "create"

\* C8 (as claimed): after a creation answered 400 with an existing contact
\* id, that id is the resolved id, the local record of the email carries it
\* and the add-tags call is made for it.
C8_ConflictIdPersistedAndTagged ==
    \A d \in DOMAIN z :
      h[d].via = "conflict" =>
        /\ TruthyId(h[d].resolved)
        /\ Done(d) =>
             /\ \E row \in LocalOf(h[d].email) : row.ghlContactId = h[d].resolved
             /\ Did(d, "addTags") /\ h[d].tagsTo = h[d].resolved

\* C9: when the creation fails without an existing contact id, the delivery
\* makes no add-tags call, no workflow call and no Contact Record write, is
\* answered 200, and its Ledger entry stays recorded.
C9_UnresolvedStillProcessed ==
    \A d \in DOMAIN z :
      (LastStep(d) = "create" /\ h[d].last \in {"400", "500"}) =>
        /\ Done(d) /\ z[d].status = 200
        /\ ~Did(d, "addTags") /\ ~Did(d, "workflow") /\ ~Did(d, "contactWrite")
        /\ Truthy(h[d].identity) =>
             \E row \in ledger : row._id = d /\ row.eventId = h[d].identity

\* C9 witness: search and creation both failed for a recorded registration.
C9_Witness ==
    \E d \in DOMAIN z :
      /\ LastStep(d) = "create" /\ h[d].last = "500"
      /\ Truthy(h[d].identity) /\ Done(d) /\ z[d].status = 200
      /\ \E row \in ledger : row._id = d

\* ------------------------------------------------------------------------
\* C10: the global tag
\* ------------------------------------------------------------------------

StoredOrDefault(stored) ==
    IF stored = Undefined \/ stored = "" THEN "Zoom Registration" ELSE stored

\* C10: the add-tags call of a registration carries the global tag that was
\* stored when the registration read the setting (the default 'Zoom
\* Registration' when none was) followed by 'zoom registered'; and as long as
\* the setting has not been written since the registration arrived, that is
\* the value stored now.
C10_TagsCarryStoredGlobalTag ==
    \A d \in DOMAIN z :
      Did(d, "addTags") =>
        /\ h[d].tagsSent = <<StoredOrDefault(h[d].settingAtRead), "zoom registered">>
        /\ version = h[d].verAtStart =>
             h[d].tagsSent[1] = StoredOrDefault(settings)

\* C10 witness: configuration intake changed the tag before the registration
\* arrived, and the registration tagged with the new value.
C10_Witness ==
    \E d \in DOMAIN z :
      /\ Did(d, "addTags")
      /\ h[d].verAtStart > 0 /\ version = h[d].verAtStart
      /\ \A k \in DOMAIN c : c[k].pc = "done"
      /\ h[d].tagsSent = <<settings, "zoom registered">>
      /\ settings = "Promo"

\* ------------------------------------------------------------------------
\* C11..C12: failures of the propagation calls
\* ------------------------------------------------------------------------

\* How many times delivery d has completed step op.
Times(d, op) == Cardinality({i \in DOMAIN h[d].steps : h[d].steps[i] = op})

\* The Ledger entry delivery d wrote is there (a delivery with no event
\* identity writes none).
LedgerEntryKept(d) ==
    Truthy(h[d].identity) => \E row \in ledger : row._id = d /\ row.eventId = h[d].identity

\* C11: a failed workflow-enrollment call is swallowed: the delivery is
\* answered 200, its add-tags call has been made exactly once and came
\* before, its Ledger entry is there; and the step in which the workflow call
\* answers changes neither the Contact Records, nor the Ledger, nor the
\* remote contacts.
C11_WorkflowFailureSwallowed ==
    /\ [](\A d \in DOMAIN z :
           (LastStep(d) = "workflow" /\ h[d].last = "error") =>
             /\ Done(d) /\ z[d].status = 200 /\ z[d].message = "Webhook received"
             /\ Times(d, "addTags") = 1 /\ Times(d, "workflow") = 1
             /\ h[d].steps[Len(h[d].steps) - 1] = "addTags"
             /\ LedgerEntryKept(d))
    /\ [][\A d \in DOMAIN z :
           (z[d].pc = "workflow" /\ z'[d].pc # "workflow") =>
             /\ z'[d].status = 200
             /\ UNCHANGED <<contacts, ledger, remote, settings>>]_vars

\* C11 witness: the workflow call of a recorded registration failed after its
\* add-tags call had succeeded.
C11_Witness ==
    \E d \in DOMAIN z :
      /\ LastStep(d) = "workflow" /\ h[d].last = "error"
      /\ Truthy(h[d].identity) /\ Did(d, "contactWrite")
      /\ z[d].status = 200

Sent(k) == Payload(c[k].body)

CfgReceived(k) == c[k].pc # "idle"

CfgDone(k) == c[k].pc = "done"

\* The request carries no email: the field is absent, empty or blank.
NoEmail(email) == email = UndefinedStr \/ \A i \in DOMAIN email : email[i] = " "

\* The request carries an email that is the empty or a blank string.
BlankEmail(email) == email # UndefinedStr /\ \A i \in DOMAIN email : email[i] = " "

\* The request carries no contactId / no tag value.
NoId(v) == v = Undefined \/ v = ""

\* The Contact Record configuration delivery k inserted, if any.
InsertedBy(k) == {row \in contacts : row._id = CfgRowId(k)}

\* C13: a configuration delivery with neither email nor contactId is answered
\* 400 as soon as it arrives, tag value or not; it inserts no Contact Record,
\* and the step in which it arrives writes neither the Contact Records nor
\* the Global Setting.
C13_NeitherEmailNorIdRejected ==
    /\ [](\A k \in DOMAIN c :
           (CfgReceived(k) /\ NoEmail(Sent(k).email) /\ NoId(Sent(k).contactId)) =>
             /\ CfgDone(k) /\ c[k].status = 400
             /\ InsertedBy(k) = {})
    /\ [][\A k \in DOMAIN c :
           (~CfgReceived(k) /\ c'[k].status = 400) =>
             UNCHANGED <<contacts, settings, version>>]_vars

\* C13 witness: a delivery with a blank email, no contactId and a tag value
\* was answered 400 and nothing is stored.
C13_Witness ==
    \E k \in DOMAIN c :
      /\ CfgDone(k) /\ c[k].status = 400
      /\ BlankEmail(Sent(k).email) /\ ~NoId(Sent(k).zoom_tag)
      /\ contacts = {} /\ settings = Undefined /\ version = 0

\* C14 (as claimed): a configuration delivery with a contactId, an empty or
\* blank email and a tag value is, once answered, answered 200; the Global
\* Setting has been set; a Contact Record carries its contactId; and no
\* Contact Record has the empty string for its email.
C14_BlankEmailUpsertedByContactId ==
    \A k \in DOMAIN c :
      (/\ CfgDone(k)
       /\ ~NoId(Sent(k).contactId) /\ BlankEmail(Sent(k).email) /\ ~NoId(Sent(k).zoom_tag))
      => /\ c[k].status = 200
         /\ settings # Undefined
         /\ \E row \in contacts : row.ghlContactId = Sent(k).contactId
         /\ \A row \in contacts : row.email # <<>>

\* C15 (as claimed): two configuration deliveries with different contactIds
\* and no email are, once answered, both answered 200, and each contactId
\* has its own Contact Record.
C15_EmailLessRecordsCoexist ==
    \A k, j \in DOMAIN c :
      (/\ CfgDone(k) /\ CfgDone(j)
       /\ ~NoId(Sent(k).contactId) /\ ~NoId(Sent(j).contactId)
       /\ Sent(k).contactId # Sent(j).contactId
       /\ NoEmail(Sent(k).email) /\ NoEmail(Sent(j).email))
      => /\ c[k].status = 200 /\ c[j].status = 200
         /\ \E rk, rj \in contacts :
              /\ rk # rj
              /\ rk.ghlContactId = Sent(k).contactId
              /\ rj.ghlContactId = Sent(j).contactId

\* The delivery has passed the tag logic of the handler.
PastTagLogic(k) ==
    c[k].pc = "contactUpsert" \/ (CfgDone(k) /\ c[k].status # 400)

\* C16: a delivery with a tag value T that reads the Global Setting goes on
\* to write it exactly when none is stored or the stored value differs from
\* T, and its write stores T; the Global Setting changes in no other step;
\* so that when only one delivery with a tag value has been received and it
\* is past its tag logic, the stored value is T.  A delivery without a tag
\* value never reads or writes the setting.
C16_GlobalTagLastWriteWins ==
    /\ [](\A k \in DOMAIN c :
           /\ (CfgReceived(k) /\ NoId(Sent(k).zoom_tag)) =>
                c[k].pc \in {"contactUpsert", "done"}
           /\ (/\ PastTagLogic(k) /\ ~NoId(Sent(k).zoom_tag)
               /\ \A j \in DOMAIN c : (j # k /\ CfgReceived(j)) => NoId(Sent(j).zoom_tag))
              => settings = Sent(k).zoom_tag)
    /\ [][/\ \A k \in DOMAIN c :
             /\ (c[k].pc = "settingsFind" /\ c'[k].pc # "settingsFind") =>
                  /\ settings' = settings
                  /\ IF settings = Undefined \/ settings # Sent(k).zoom_tag
                     THEN c'[k].pc = "settingsUpdate"
                     ELSE c'[k].pc = "contactUpsert"
             /\ (c[k].pc = "settingsUpdate" /\ c'[k].pc # "settingsUpdate") =>
                  settings' = Sent(k).zoom_tag
          /\ settings' # settings =>
               \E k \in DOMAIN c : c[k].pc = "settingsUpdate" /\ c'[k].pc # "settingsUpdate"
       ]_vars

\* C16 witness: two deliveries with different tag values were accepted, both
\* wrote the setting, and the value stored is a value one of them carried.
C16_Witness ==
    \E k, j \in DOMAIN c :
      /\ CfgDone(k) /\ CfgDone(j) /\ c[k].status = 200 /\ c[j].status = 200
      /\ ~NoId(Sent(k).zoom_tag) /\ ~NoId(Sent(j).zoom_tag)
      /\ Sent(k).zoom_tag # Sent(j).zoom_tag
      /\ version = 2
      /\ settings = Sent(k).zoom_tag

\* ------------------------------------------------------------------------
\* C17..C19: the intake gate of POST /zoom-webhook
\* ------------------------------------------------------------------------

\* Signature verification is switched on and the request does not carry the
\* signature Zoom computes for it: the signature, the timestamp or the secret
\* is missing, or the signature is not "v0=" + HMAC-SHA256(secret,
\* "v0:" + timestamp + ":" + body).
BadSignature(req) ==
    /\ req.verify
    /\ \/ req.signature = UndefinedStr \/ req.signature = <<>>
       \/ req.ts = UndefinedStr \/ req.ts = <<>>
       \/ req.secret = UndefinedStr \/ req.secret = <<>>
       \/ req.signature #
            <<"v0=">> \o Hmac(req.secret, <<"v0:">> \o req.ts \o <<":">> \o StringifyBody(req))

\* Delivery d has had no effect: it completed no store operation and no
\* remote call, and nothing stored or remote stems from it.
NoEffect(d) ==
    /\ h[d].steps = <<>>
    /\ \A row \in ledger : row._id # d
    /\ \A row \in contacts : row._id # ZoomRowId(d)
    /\ \A rc \in remote : rc.id # NewRemoteId(d)

\* The step in which a delivery arrives and is answered at once writes
\* nothing.
AnsweredOnArrival(d) == z[d].pc = "idle" /\ z'[d].pc = "done"

\* C17 (as claimed): with signature verification on, any notification that
\* does not carry the right signature is answered 401 and has no effect.
C17_BadSignatureRejected ==
    \A d \in DOMAIN z :
      (Received(d) /\ BadSignature(z[d].req)) =>
        Done(d) /\ z[d].status = 401 /\ NoEffect(d)

\* C17 (amended): with signature verification on, a notification other than
\* the URL validation challenge that does not carry the right signature is
\* answered 401 on arrival and has no effect: it completes no store
\* operation and no remote call, and the step in which it arrives changes
\* neither the Ledger, nor the Contact Records, nor the Global Setting, nor
\* the remote contacts.
C17_BadSignatureRejectedUnlessChallenge ==
    /\ [](\A d \in DOMAIN z :
           (Received(d) /\ BadSignature(z[d].req) /\ z[d].req.event # UrlValidation) =>
             Done(d) /\ z[d].status = 401 /\ NoEffect(d))
    /\ [][\A d \in DOMAIN z :
           (AnsweredOnArrival(d) /\ z'[d].status = 401) =>
             UNCHANGED <<ledger, contacts, settings, remote, version>>]_vars

\* C17 witness: a delivery whose timestamp header was missing was answered
\* 401 after a correctly signed delivery had been recorded in the Ledger.
C17_Witness ==
    \E d, e \in DOMAIN z :
      /\ Done(d) /\ z[d].status = 401
      /\ z[d].req.verify /\ z[d].req.ts = UndefinedStr /\ Truthy(z[d].req.signature)
      /\ z[e].req # Null /\ z[e].req.verify /\ ~BadSignature(z[e].req)
      /\ ledger # {} /\ \A row \in ledger : row._id = e

\* C18: the URL validation challenge is answered on arrival: with the token
\* and HMAC-SHA256(secret, token) when both are there, with 400 when the
\* token or the secret is missing; either way it has no effect: it completes
\* no store operation and no remote call, and the step in which it arrives
\* changes neither the Ledger, nor the Contact Records, nor the Global
\* Setting, nor the remote contacts.
C18_ChallengeAnsweredWithoutEffect ==
    /\ [](\A d \in DOMAIN z :
           (Received(d) /\ z[d].req.event = UrlValidation) =>
             /\ Done(d) /\ NoEffect(d)
             /\ IF Truthy(z[d].req.plainToken) /\ Truthy(z[d].req.secret)
                THEN /\ z[d].status = 200
                     /\ z[d].encryptedToken = Hmac(z[d].req.secret, z[d].req.plainToken)
                ELSE /\ z[d].status = 400
                     /\ z[d].encryptedToken = UndefinedStr)
    /\ [][\A d \in DOMAIN z :
           (AnsweredOnArrival(d) /\ z'[d].req.event = UrlValidation) =>
             UNCHANGED <<ledger, contacts, settings, remote, version>>]_vars

\* C18 witness: one challenge was answered with the signed token, another,
\* which came without the secret, with 400.
C18_Witness ==
    \E d, e \in DOMAIN z :
      /\ Done(d) /\ z[d].req.event = UrlValidation /\ z[d].status = 200
      /\ z[d].encryptedToken = Hmac(<<"s">>, <<"p">>)
      /\ Done(e) /\ z[e].req.event = UrlValidation /\ z[e].status = 400
      /\ z[e].req.secret = UndefinedStr

\* A notification lacking a required field: no event type, or a registration
\* without a registrant email.
MissingRequiredField(req) ==
    \/ ~Truthy(req.event)
    \/ IsRegistration(req.event) /\ ~Truthy(HandlerEmail(req))

\* C19 (as claimed): a notification lacking a required field, once answered,
\* is answered 400.
C19_MissingFieldAnswered400 ==
    \A d \in DOMAIN z :
      (Done(d) /\ ~BadSignature(z[d].req) /\ MissingRequiredField(z[d].req))
      => z[d].status = 400

\* ------------------------------------------------------------------------
\* C20: the database cannot be reached
\* ------------------------------------------------------------------------

\* C20 (as claimed): a delivery one of whose store operations failed because
\* the store could not be reached is answered 500, on either webhook.
C20_StoreFailureAnswered500 ==
    /\ \A d \in DOMAIN z : (Done(d) /\ h[d].last = "unavailable") => z[d].status = 500
    /\ \A k \in DOMAIN c : (CfgDone(k) /\ c[k].failed) => c[k].status = 500

\* ------------------------------------------------------------------------
\* C21..C22: registrations and configuration events for the same email
\* ------------------------------------------------------------------------

\* Configuration delivery k carries contactId id and an email that
\* normalizes to email.
CfgNames(k, id, email) ==
    /\ CfgReceived(k)
    /\ Sent(k).contactId = id
    /\ ~NoEmail(Sent(k).email)
    /\ ToLowerCase(Trim(Sent(k).email)) = email

\* Registration d reconciles email and its resolution took the id from the
\* local record or from the remote search, which returned id.
ResolvedBySearchOrLocally(d, id, email) ==
    /\ h[d].email = email
    /\ h[d].via \in {"local", "found"}
    /\ h[d].resolved = id

NoOtherIdFor(email, id) ==
    \A f \in Resolvers(email) : h[f].resolved = id

C22_EmailsUnique ==
    \A r1, r2 \in contacts :
      (/\ r1.email # UndefinedStr /\ r2.email # UndefinedStr
       /\ ToLowerCase(Trim(r1.email)) = ToLowerCase(Trim(r2.email)))
      => r1 = r2

\* C22 witness: a configuration delivery spelling the email "A " and a
\* registration for "a", handled concurrently, left one record for it, next
\* to the record of another registrant.
C22_Witness ==
    \E d, e \in DOMAIN z, k \in DOMAIN c :
      /\ Done(d) /\ Done(e) /\ CfgDone(k)
      /\ Sent(k).email = <<"A", " ">> /\ h[d].email = <<"a">> /\ h[d].found = "null"
      /\ Did(d, "contactWrite")
      /\ Cardinality(LocalOf(<<"a">>)) = 1
      /\ h[e].email = <<"b">> /\ Cardinality(LocalOf(<<"b">>)) = 1

\* ------------------------------------------------------------------------
\* C23..C24: the Ledger only grows; the statuses on the wire
\* ------------------------------------------------------------------------

\* C23: every step keeps every Ledger entry as it is, so the set of recorded
\* event identities only grows.
C23_LedgerAppendOnly ==
    [][/\ \A row \in ledger : row \in ledger'
       /\ {row.eventId : row \in ledger} \subseteq {row.eventId : row \in ledger'}]_vars

\* C23 witness: the entry of a registration is still there after the
\* registration was tagged, a second delivery of it was answered as a
\* duplicate and the configuration deliveries were answered.
C23_Witness ==
    \E d, e \in DOMAIN z :
      /\ SameIdentity(d, e)
      /\ Did(d, "addTags") /\ Done(d)
      /\ Done(e) /\ z[e].message = "Duplicate event"
      /\ \A k \in DOMAIN c : CfgDone(k)
      /\ \E row \in ledger : row._id = d /\ row.eventId = h[d].identity

\* C24: every answer of POST /zoom-webhook has status 200, 400, 401 or 500
\* and every answer of POST /ghl-webhook has status 200, 400 or 500, whatever
\* GHL answers and whether or not the database can be reached.
C24_StatusesOnTheWire ==
    /\ \A d \in DOMAIN z : Done(d) => z[d].status \in {200, 400, 401, 500}
    /\ \A k \in DOMAIN c : CfgDone(k) => c[k].status \in {200, 400, 500}

\* C24 witness: a registration whose search and creation both failed at GHL
\* was answered 200, and a configuration delivery that could not reach the
\* database was answered 500.
C24_Witness ==
    \E d \in DOMAIN z, k \in DOMAIN c :
      /\ Done(d) /\ LastStep(d) = "create" /\ h[d].last = "500" /\ z[d].status = 200
      /\ CfgDone(k) /\ c[k].failed /\ c[k].status = 500

\* ------------------------------------------------------------------------
\* C25..C27: the fast path, search before create, the event identity
\* ------------------------------------------------------------------------

\* C25: when Contact.findOne answers with a record that carries a remote id,
\* the registration is resolved to that id and goes on to read the global
\* tag; it makes no search call, no create call and no Contact Record write,
\* and the id it tags is that id.
C25_LinkedRecordIsFastPath ==
    /\ [](\A d \in DOMAIN z :
           h[d].found = "linked" =>
             /\ ~Did(d, "search") /\ ~Did(d, "create") /\ ~Did(d, "contactWrite")
             /\ z[d].pc \notin {"search", "create", "contactWrite"}
             /\ TruthyId(h[d].resolved)
             /\ Did(d, "addTags") => h[d].tagsTo = h[d].resolved)
    /\ [][\A d \in DOMAIN z :
           (/\ z[d].pc = "contactFind" /\ z'[d].pc # "contactFind"
            /\ \E row \in LocalOf(z[d].email) : row.ghlContactId \notin {Undefined, ""})
           => /\ z'[d].pc = "settingsRead"
              /\ \E row \in LocalOf(z[d].email) :
                   z'[d].ghlContactId = row.ghlContactId /\ h'[d].resolved = row.ghlContactId
              /\ UNCHANGED <<contacts, remote>>]_vars

\* C25 witness: a registration found the record a configuration delivery had
\* stored with its contactId, and was tagged after the Ledger steps, the
\* lookup and the read of the global tag only.
C25_Witness ==
    \E d \in DOMAIN z, k \in DOMAIN c :
      /\ h[d].found = "linked" /\ Done(d)
      /\ h[d].steps = <<"ledgerFind", "ledgerCreate", "contactFind", "settingsRead", "addTags">>
      /\ CfgDone(k) /\ h[d].tagsTo = Sent(k).contactId

\* C26: the creation is attempted only after a lookup that found no linked
\* record and a search that produced no contact; when the search returns a
\* contact, its id is the resolved id, the Contact Record write comes next
\* and no create call is ever made for that delivery.
C26_CreateOnlyAfterEmptySearch ==
    /\ [](\A d \in DOMAIN z :
           /\ (z[d].pc = "create" \/ Did(d, "create")) =>
                /\ h[d].found \in {"null", "unlinked"}
                /\ Did(d, "search")
                /\ h[d].via # "found"
           /\ h[d].via = "found" =>
                /\ z[d].pc # "create" /\ ~Did(d, "create")
                /\ TruthyId(h[d].resolved)
                /\ Did(d, "addTags") => h[d].tagsTo = h[d].resolved)
    /\ [][\A d \in DOMAIN z :
           (z[d].pc = "search" /\ h'[d].last = "found") =>
             /\ z'[d].pc = "contactWrite"
             /\ \E rc \in RemoteMatches(z[d].email) :
                  z'[d].ghlContactId = rc.id /\ h'[d].resolved = rc.id
             /\ UNCHANGED remote]_vars

\* C26 witness: one registration was resolved by the search and tagged
\* without a create call, another went from an empty search to the creation.
C26_Witness ==
    \E d, e \in DOMAIN z :
      /\ h[d].via = "found" /\ Did(d, "addTags") /\ ~Did(d, "create")
      /\ h[e].found = "null" /\ h[e].via = "created"
      /\ h[e].steps[Len(h[e].steps) - 1] = "search"

\* A header or body field that is there (neither undefined nor '').
Present(s) == s # UndefinedStr /\ s # <<>>

\* The event identity the derivation order prescribes for a request:
\* parentId_email_eventType, else the uuid, else the timestamp header, else
\* none.
PrescribedIdentity(req) ==
    LET email == IF Present(req.regEmail) THEN req.regEmail ELSE req.objEmail IN
    IF Present(req.id) /\ Present(email)
    THEN req.id \o <<"_">> \o email \o <<"_">> \o req.event
    ELSE IF Present(req.uuid) THEN req.uuid
    ELSE IF Present(req.ts) THEN req.ts
    ELSE UndefinedStr

\* The delivery has passed the challenge and the signature gate.
PastGate(d) ==
    Received(d) /\ z[d].req.event # UrlValidation /\ ~BadSignature(z[d].req)

\* C27: a delivery past the gate has the identity the derivation order
\* prescribes, and the Ledger entry it writes carries it; with an identity
\* it goes through the Ledger lookup; with none it makes no Ledger lookup
\* and writes no entry, and if it is a registration with an email it is
\* reconciled all the same.
C27_IdentityDerivationOrder ==
    \A d \in DOMAIN z :
      PastGate(d) =>
        /\ h[d].identity = PrescribedIdentity(z[d].req)
        /\ \A row \in ledger : row._id = d => row.eventId = PrescribedIdentity(z[d].req)
        /\ IF Present(PrescribedIdentity(z[d].req))
           THEN z[d].pc = "ledgerFind" \/ h[d].steps[1] = "ledgerFind"
           ELSE /\ ~Did(d, "ledgerFind") /\ ~Did(d, "ledgerCreate")
                /\ z[d].pc \notin {"ledgerFind", "ledgerCreate"}
                /\ \A row \in ledger : row._id # d
                /\ (IsRegistration(z[d].req.event) /\ Present(HandlerEmail(z[d].req))) =>
                     z[d].pc = "contactFind" \/ h[d].steps[1] = "contactFind"

\* C27 witness: the same registration without any identity was delivered
\* twice and tagged twice, and the Ledger is empty.
C27_Witness ==
    \E d, e \in DOMAIN z :
      /\ d # e /\ z[d].req = z[e].req
      /\ PastGate(d) /\ ~Present(PrescribedIdentity(z[d].req))
      /\ Did(d, "addTags") /\ Did(e, "addTags")
      /\ ledger = {}

\* ------------------------------------------------------------------------
\* C28..C30: the Contact Record write under concurrency; the order of steps
\* ------------------------------------------------------------------------

\* C28 (as claimed): when two registrations for the same email, neither of
\* which found a record, have both completed their Contact Record write,
\* exactly one record exists for the email and each of them, once answered,
\* has made its add-tags call.
C28_SecondWriterUpdates ==
    \A d, e \in DOMAIN z :
      (/\ d # e
       /\ Truthy(h[d].email) /\ h[d].email = h[e].email
       /\ h[d].found = "null" /\ h[e].found = "null"
       /\ Did(d, "contactWrite") /\ Did(e, "contactWrite"))
      => /\ Cardinality(LocalOf(h[d].email)) = 1
         /\ Done(d) => Did(d, "addTags")
         /\ Done(e) => Did(e, "addTags")

\* The order of the steps of a delivery.
StepOrder ==
    <<"ledgerFind", "ledgerCreate", "contactFind", "search", "create",
      "contactWrite", "settingsRead", "addTags", "workflow">>

Position(op) == CHOOSE i \in DOMAIN StepOrder : StepOrder[i] = op

\* The steps of a delivery that call GHL or write a Contact Record.
RemoteOrWrite == {"search", "create", "contactWrite", "addTags", "workflow"}

\* C29: the steps a delivery has completed are in the order Ledger lookup,
\* Ledger insert, Contact Record lookup, search, create, Contact Record
\* write, read of the global tag, add-tags, workflow enrollment; a delivery
\* refused by the signature check has completed none; and a delivery with an
\* identity that has completed, or is about to make, a remote call or a
\* Contact Record write has written its Ledger entry before.
C29_StepsInOrder ==
    \A d \in DOMAIN z :
      /\ \A i, j \in DOMAIN h[d].steps :
           i < j => Position(h[d].steps[i]) < Position(h[d].steps[j])
      /\ (Received(d) /\ BadSignature(z[d].req) /\ z[d].req.event # UrlValidation) =>
           h[d].steps = <<>>
      /\ (/\ Truthy(h[d].identity)
          /\ \/ Range(h[d].steps) \cap (RemoteOrWrite \cup {"contactFind"}) # {}
             \/ z[d].pc \in RemoteOrWrite \cup {"contactFind"})
         => /\ Len(h[d].steps) >= 2
            /\ h[d].steps[1] = "ledgerFind" /\ h[d].steps[2] = "ledgerCreate"
            /\ \E row \in ledger : row._id = d /\ row.eventId = h[d].identity

\* C29 witness: a delivery went through all nine steps.
C29_Witness ==
    \E d \in DOMAIN z : Done(d) /\ h[d].steps = StepOrder

\* C30: the workflow call is made only with a workflow id configured, right
\* after the add-tags call of the same delivery has succeeded and for the
\* contact id that call tagged; after a failed add-tags call the delivery is
\* answered without a workflow call.
C30_WorkflowOnlyAfterTags ==
    \A d \in DOMAIN z :
      /\ z[d].pc = "workflow" =>
           /\ z[d].workflowId \notin {Undefined, ""}
           /\ LastStep(d) = "addTags" /\ h[d].last = "ok"
           /\ z[d].ghlContactId = h[d].tagsTo
      /\ Did(d, "workflow") =>
           /\ LastStep(d) = "workflow"
           /\ h[d].steps[Len(h[d].steps) - 1] = "addTags"
      /\ (LastStep(d) = "addTags" /\ h[d].last = "error") =>
           Done(d) /\ ~Did(d, "workflow")
      /\ (LastStep(d) = "addTags" /\ h[d].last = "ok" /\ Done(d)) => ~Did(d, "workflow")

\* C30 witness: one registration was tagged and enrolled, another was tagged
\* while no workflow id was configured and answered without the call.
C30_Witness ==
    \E d, e \in DOMAIN z :
      /\ Did(d, "workflow") /\ Done(d) /\ h[d].last = "ok"
      /\ Done(e) /\ LastStep(e) = "addTags" /\ h[e].last = "ok"

\* ------------------------------------------------------------------------
\* C31: the Global Setting has one writer
\* ------------------------------------------------------------------------

\* C31: a step that creates or changes the Global Setting is the
\* Settings.findOneAndUpdate of a configuration delivery, which stores the
\* tag value that delivery carries; no step of a delivery to POST
\* /zoom-webhook (arrival, challenge, signature check, Ledger lookup and
\* insert, contact resolution, read of the global tag, add-tags, workflow
\* enrollment) changes it.
C31_SettingWrittenByIntakeOnly ==
    [][/\ settings' # settings =>
            /\ z' = z /\ h' = h
            /\ \E k \in DOMAIN c :
                 /\ c[k].pc = "settingsUpdate" /\ c'[k].pc = "contactUpsert"
                 /\ settings' = Sent(k).zoom_tag
       /\ z' # z => settings' = settings /\ version' = version]_vars

\* C31 witness: no tag was stored when one registration read the Global
\* Setting and was tagged with the default; a configuration delivery then
\* stored its tag, and a second registration read that tag and was tagged
\* with it.
C31_Witness ==
    \E d, e \in DOMAIN z, k \in DOMAIN c :
      /\ Done(d) /\ Did(d, "addTags") /\ h[d].settingAtRead = Undefined
      /\ CfgDone(k) /\ version = 1 /\ settings = Sent(k).zoom_tag
      /\ Done(e) /\ Did(e, "addTags") /\ h[e].settingAtRead = settings
      /\ h[e].tagsSent = TagList(settings)

\* ------------------------------------------------------------------------
\* C32: the Contact Record upsert of configuration intake
\* ------------------------------------------------------------------------

\* The Contact Records the key of configuration delivery k selects: those
\* with its contactId as remote id when it carries one, else those with its
\* email.
KeyedBy(k) ==
    IF ~NoId(Sent(k).contactId)
    THEN {row \in contacts : row.ghlContactId = Sent(k).contactId}
    ELSE {row \in contacts : row.email = ToLowerCase(Trim(Sent(k).email))}

\* The record a configuration delivery is to insert when its key selects
\* none: linked to its contactId when it carries one, unlinked otherwise
\* (without a remote id, or with the empty one the delivery carries).
ToInsert(k) ==
    [_id |-> CfgRowId(k),
     email |-> IF NoEmail(Sent(k).email) THEN UndefinedStr
               ELSE ToLowerCase(Trim(Sent(k).email)),
     ghlContactId |-> Sent(k).contactId]

\* The step in which the Contact.findOneAndUpdate of delivery k answers.
UpsertAnswers(k) == c[k].pc = "contactUpsert" /\ c'[k].pc # "contactUpsert"

\* The upsert as claimed: a record the key selects is updated in place with
\* what the delivery carries (a delivery without a contactId leaves the
\* remote id as it is, or the record unlinked if it was); when the key
\* selects none, the record to insert is inserted; nothing else changes.
UpsertAsClaimed(k) ==
    IF KeyedBy(k) # {}
    THEN \E row \in KeyedBy(k), new \in contacts' :
           /\ contacts' = (contacts \ {row}) \cup {new}
           /\ new._id = row._id
           /\ new.email = IF NoEmail(Sent(k).email) THEN row.email
                          ELSE ToLowerCase(Trim(Sent(k).email))
           /\ IF ~NoId(Sent(k).contactId) THEN new.ghlContactId = Sent(k).contactId
              ELSE \/ new.ghlContactId = row.ghlContactId
                   \/ NoId(row.ghlContactId) /\ NoId(new.ghlContactId)
    ELSE ToInsert(k) \notin contacts /\ contacts' = contacts \cup {ToInsert(k)}

\* C32 (as claimed): when the upsert of a configuration delivery answers, the
\* record its key selects has been updated, or, there being none, a record
\* has been inserted with its contactId (or, for a delivery with only an
\* email, unlinked with that email); and no step inserts more than one
\* record.
C32_UpsertByContactIdElseEmail ==
    [][/\ \A k \in DOMAIN c : UpsertAnswers(k) => UpsertAsClaimed(k)
       /\ Cardinality({row._id : row \in contacts'} \ {row._id : row \in contacts}) <= 1]_vars

\* ------------------------------------------------------------------------
\* C33: a delivery answered 500 has left no Ledger entry
\* ------------------------------------------------------------------------

\* C33: a delivery to POST /zoom-webhook answered 500 has written no Ledger
\* entry, and was answered before any step of the registration handling;
\* and a later delivery with the same event identity is answered "Duplicate
\* event" only if another delivery than the failed one wrote the entry.
C33_FailedAttemptLeavesNoEntry ==
    \A d \in DOMAIN z :
      (Done(d) /\ z[d].status = 500) =>
        /\ \A row \in ledger : row._id # d
        /\ Range(h[d].steps) \subseteq {"ledgerFind", "ledgerCreate"}
        /\ h[d].last # "ok"
        /\ \A e \in DOMAIN z :
             (SameIdentity(d, e) /\ z[e].message = "Duplicate event") =>
               \E row \in ledger : row.eventId = h[d].identity /\ row._id \notin {d, e}

\* C33 witness: the Ledger could not be reached for the insert of a
\* registration, which was answered 500; the same registration was
\* delivered again, was not found in the Ledger, wrote its entry and was
\* tagged.
C33_Witness ==
    \E d, e \in DOMAIN z :
      /\ d < e /\ z[d].req = z[e].req /\ SameIdentity(d, e)
      /\ Done(d) /\ z[d].status = 500
      /\ h[d].steps = <<"ledgerFind", "ledgerCreate">> /\ h[d].last = "unavailable"
      /\ Done(e) /\ Did(e, "addTags") /\ z[e].status = 200
      /\ \E row \in ledger : row._id = e /\ row.eventId = h[d].identity

\* ------------------------------------------------------------------------
\* C34: a link, once made, stays
\* ------------------------------------------------------------------------

\* C34 (as claimed): every step keeps every Contact Record that carries a
\* remote id, with that id.
C34_LinkNeverChanges ==
    [][\A row \in contacts :
         row.ghlContactId \notin {Undefined, ""} =>
           \E new \in contacts' :
             new._id = row._id /\ new.ghlContactId = row.ghlContactId]_vars

\* ------------------------------------------------------------------------
\* C35: one Contact Record per remote id
\* ------------------------------------------------------------------------

\* C35 (as claimed): no two Contact Records carry the same remote id.
C35_RemoteIdsUnique ==
    \A r1, r2 \in contacts :
      (r1.ghlContactId \notin {Undefined, ""} /\ r1.ghlContactId = r2.ghlContactId)
      => r1._id = r2._id

\* ------------------------------------------------------------------------
\* C36: tagging and enrollment need a resolved remote id
\* ------------------------------------------------------------------------

\* A remote contact id that is there (neither undefined nor '').
PresentId(v) == v # Undefined /\ v # ""

\* C36: the add-tags call and the workflow call of a delivery are about to
\* be made, and have been made, with a remote id that is there; and as long
\* as the resolution of a delivery has yielded no id, the delivery is still
\* searching or creating, or it has been answered, and it has neither read
\* the global tag nor made either call.
C36_TaggingNeedsResolvedId ==
    \A d \in DOMAIN z :
      /\ z[d].pc \in {"addTags", "workflow"} => PresentId(z[d].ghlContactId)
      /\ Did(d, "addTags") => PresentId(h[d].tagsTo)
      /\ Did(d, "workflow") => PresentId(h[d].tagsTo)
      /\ (Did(d, "contactFind") /\ ~PresentId(h[d].resolved)) =>
           /\ z[d].pc \in {"search", "create", "done"}
           /\ ~Did(d, "settingsRead") /\ ~Did(d, "addTags") /\ ~Did(d, "workflow")

\* C36 witness: one registration, whose search and creation both failed, was
\* answered without tagging; another found its record unlinked, was resolved
\* by the search, tagged and enrolled with the id found.
C36_Witness ==
    \E d, e \in DOMAIN z :
      /\ Done(d) /\ LastStep(d) = "create" /\ h[d].last = "500"
      /\ ~PresentId(h[d].resolved) /\ ~Did(d, "addTags")
      /\ Done(e) /\ h[e].found = "unlinked" /\ h[e].via = "found"
      /\ Did(e, "workflow") /\ PresentId(h[e].tagsTo) /\ h[e].tagsTo = h[e].resolved

\* ------------------------------------------------------------------------
\* C37: every delivery is answered, once
\* ------------------------------------------------------------------------

\* C37: when every awaited store operation and remote call eventually returns
\* or fails, every delivery received by POST /zoom-webhook or POST
\* /ghl-webhook is eventually answered, whatever failed while it or an
\* earlier delivery was handled; and an answer, once given, is never given
\* again or changed.
C37_EveryDeliveryAnsweredOnce ==
    /\ \A d \in 1..MaxZoomLive : (z[d].pc # "idle") ~> (z[d].pc = "done")
    /\ \A k \in 1..MaxCfgLive : (c[k].pc # "idle") ~> (c[k].pc = "done")
    /\ [][/\ \A d \in DOMAIN z : z[d].pc = "done" => z'[d] = z[d]
          /\ \A k \in DOMAIN c : c[k].pc = "done" => c'[k] = c[k]]_vars

\* C37 witness: a registration was answered after its creation failed with
\* 500 at GHL, the first configuration delivery was answered 500 because the
\* database could not be reached, and the second configuration delivery
\* stored its record and was answered 200.
C37_Witness ==
    \E d \in DOMAIN z, j, k \in DOMAIN c :
      /\ Done(d) /\ LastStep(d) = "create" /\ h[d].last = "500" /\ z[d].status = 200
      /\ j < k
      /\ CfgDone(j) /\ c[j].failed /\ c[j].status = 500
      /\ CfgDone(k) /\ ~c[k].failed /\ c[k].status = 200 /\ InsertedBy(k) # {}

\* ------------------------------------------------------------------------
\* C38: events that are not registrations
\* ------------------------------------------------------------------------

\* Delivery d has passed the challenge and the signature gate with an event
\* type that is not a registration.
OtherEvent(d) ==
    PastGate(d) /\ Truthy(z[d].req.event) /\ ~IsRegistration(z[d].req.event)

\* Delivery d has looked up or written no Contact Record, has not read the
\* Global Setting and has made no remote call, and is not about to.
OnlyLedgerSteps(d) ==
    /\ Range(h[d].steps) \subseteq {"ledgerFind", "ledgerCreate"}
    /\ z[d].pc \in {"ledgerFind", "ledgerCreate", "done"}
    /\ \A row \in contacts : row._id # ZoomRowId(d)
    /\ \A rc \in remote : rc.id # NewRemoteId(d)

\* C38 (as claimed): a delivery past the gate whose event type is not a
\* registration makes no Contact Record lookup or write, no read of the
\* Global Setting and no remote call; once answered, it is answered 200 and,
\* if it has an identity, the Ledger holds an entry for it.
C38_OtherEventsOnlyRecorded ==
    \A d \in DOMAIN z :
      OtherEvent(d) =>
        /\ OnlyLedgerSteps(d)
        /\ Done(d) =>
             /\ z[d].status = 200
             /\ Truthy(h[d].identity) =>
                  \E row \in ledger :
                    row.eventId = h[d].identity /\ row.eventType = z[d].req.event

====
